---- MODULE Spec2Model ----
(***************************************************************************)
(* thira: one-way sync of JIRA tickets into Things3 (src/main.py).         *)
(*                                                                         *)
(* The model covers StateManager (the sync ledger and its state file),     *)
(* the part of Things3Manager.add_todo and JiraManager.format_ticket_notes *)
(* that decides whether a ticket reaches Things3, and the Thira commands   *)
(* that drive them.  One process runs at a time; a later process start is  *)
(* the Restart action.                                                     *)
(*                                                                         *)
(* Spec            the commands, from a first start with no state file     *)
(* SpecTwice       two sync_tickets calls in a row on one search result    *)
(* SpecStored      the commands, from whatever the state file may hold     *)
(* SpecConcurrent  two processes marking tickets on one state file         *)
(* SpecNotes       format_ticket_notes on one issue                        *)
(***************************************************************************)
EXTENDS Naturals, Sequences, FiniteSets

\* How many tickets the tracker holds.
NumKeys == 2

\* Longest result of one JIRA search the model draws.
MaxFetch == 2

\* Ticket keys, in the order list(set) enumerates them.
KeyPool == <<"A", "B", "C", "D">>

IdOrder == SubSeq(KeyPool, 1, NumKeys)

Ids == {IdOrder[n] : n \in DOMAIN IdOrder}

\* issue.fields.reporter: a user with a displayName, or None.
ReporterKinds == {"named", "none"}

\* The issues JIRA may return.  Ticket "B" is the one whose reporter may be unset.
Issues ==
  {t \in [key : Ids, reporter : ReporterKinds] : t.reporter = "none" => t.key = "B"}

RECURSIVE SeqsUpTo(_, _)
SeqsUpTo(S, n) ==
  IF n = 0 THEN {<<>>}
  ELSE LET shorter == SeqsUpTo(S, n - 1)
       IN shorter \cup {Append(s, x) : s \in {q \in shorter : Len(q) = n - 1}, x \in S}

\* What jira.search_issues can hand back: issues in any order, at most MaxFetch
\* of them, each key once (a search returns an issue once).
FetchResults ==
  {s \in SeqsUpTo(Issues, MaxFetch) :
     \A j, k \in DOMAIN s : s[j].key = s[k].key => j = k}

VARIABLES
  state_file,      \* content of STATE_FILE on disk
  synced_tickets,  \* StateManager.synced_tickets of the running process
  pc,              \* "idle", "sync" inside a call of sync_tickets, or "down": no Thira object
  run,             \* locals of the sync_tickets call in progress
  out,             \* what the last finished command printed or returned
  sunk,            \* history: keys add_todo returned True for since the last clear_all_state
  durable,         \* history: keys marked with a successful write, not removed or cleared since
  twice,           \* history: the previous sync_tickets call, in the two-run scenario
  note,            \* a format_ticket_notes call: its issue and what came of it
  peer             \* a second process on the same state file, in the two-process scenario

vars ==
  <<state_file, synced_tickets, pc, run, out, sunk, durable, twice, note, peer>>

----------------------------------------------------------------------------
(* The state file *)

FileAbsent == [kind |-> "absent", synced_tickets |-> <<>>, last_sync |-> "Never"]

\* open(state_file, "w").close(): a file of zero bytes.
FileEmpty == [kind |-> "empty", synced_tickets |-> <<>>, last_sync |-> "Never"]

\* A file opened for writing (so truncated) whose json.dump did not complete.
FilePartial == [kind |-> "partial", synced_tickets |-> <<>>, last_sync |-> "Never"]

\* A file that json.load reads but that is not the document _save_state writes:
\* not a JSON object, or an object whose "synced_tickets" is not a list.
FileForeign == [kind |-> "foreign", synced_tickets |-> <<>>, last_sync |-> "Never"]

\* list(self.synced_tickets)
ListOfSet(S) == SelectSeq(IdOrder, LAMBDA k : k \in S)

\* set(data.get("synced_tickets", []))
SetOfList(l) == {l[n] : n \in DOMAIN l}

\* The document json.dump writes; datetime.now().isoformat() is the token "ts".
FileJson(S) == [kind |-> "json", synced_tickets |-> ListOfSet(S), last_sync |-> "ts"]

\* os.path.exists(self.state_file)
Exists(f) == f.kind # "absent"

\* json.load(f) returns the document _save_state wrote (an empty or a truncated
\* file makes it raise JSONDecodeError).
Parses(f) == f.kind = "json"

\* data.get(...) or set(...) raises AttributeError or TypeError on a foreign
\* document; the except clause names JSONDecodeError and IOError only.
LoadRaises(f) == Exists(f) /\ f.kind = "foreign"

\* The same two calls in get_sync_stats, under the same except clause.
StatsRaises(f) == Exists(f) /\ f.kind = "foreign"

\* Outcome of the write in _save_state: done, open() raised, or the write raised
\* after open() had truncated the file.
WriteOutcomes == {"ok", "open_error", "write_error"}

\* Mutant of _load_state: the list is read under a key the file does not have.
LoadUnderWrongKey(f) == {}

_load_state(f) ==
  IF Exists(f) /\ Parses(f) THEN SetOfList(f.synced_tickets) ELSE {}

\* Mutant of LoadedFile: the location is created with content of another kind.
LoadedFileForeign(f, created) ==
  IF ~Exists(f) /\ created THEN FileForeign ELSE f

\* The file after _load_state: an absent file is created empty when that succeeds.
LoadedFile(f, created) ==
  IF ~Exists(f) /\ created THEN FileEmpty ELSE f

_save_state(tickets, f, w) ==
  CASE w = "ok" -> FileJson(tickets)
    [] w = "open_error" -> f
    [] w = "write_error" -> FilePartial

is_ticket_synced(tickets, ticket_key) == ticket_key \in tickets

\* Mutant of mark_ticket_synced: the key is taken back when the write fails.
MarkRolledBack(tickets, f, ticket_key, w) ==
  IF w = "ok"
  THEN [tickets |-> tickets \cup {ticket_key},
        file |-> _save_state(tickets \cup {ticket_key}, f, w)]
  ELSE [tickets |-> tickets, file |-> _save_state(tickets \cup {ticket_key}, f, w)]

\* Mutant of mark_ticket_synced: the new key is added to what the file holds.
MarkWritesDelta(tickets, f, ticket_key, w) ==
  [tickets |-> tickets \cup {ticket_key},
   file |-> _save_state(_load_state(f) \cup {ticket_key}, f, w)]

mark_ticket_synced(tickets, f, ticket_key, w) ==
  LET added == tickets \cup {ticket_key}
  IN [tickets |-> added, file |-> _save_state(added, f, w)]

\* Mutant of remove_ticket: nothing is written when the key was not in the set.
RemoveWritesIfPresent(tickets, f, ticket_key, w) ==
  IF ticket_key \in tickets
  THEN [tickets |-> tickets \ {ticket_key}, file |-> _save_state(tickets \ {ticket_key}, f, w)]
  ELSE [tickets |-> tickets, file |-> f]

remove_ticket(tickets, f, ticket_key, w) ==
  LET left == tickets \ {ticket_key}
  IN [tickets |-> left, file |-> _save_state(left, f, w)]

\* state_info: the empty dict unless the file exists and parses.
get_sync_stats(f) ==
  IF Exists(f) /\ Parses(f)
  THEN [filled |-> TRUE,
        total_synced |-> Len(f.synced_tickets),
        last_sync |-> f.last_sync,
        synced_tickets |-> f.synced_tickets]
  ELSE [filled |-> FALSE, total_synced |-> 0, last_sync |-> "Never",
        synced_tickets |-> <<>>]

\* stats.get('total_synced', 0)
StatsTotal(stats) == IF stats.filled THEN stats.total_synced ELSE 0

\* stats.get('last_sync', 'Never')
StatsLastSync(stats) == IF stats.filled THEN stats.last_sync ELSE "Never"

\* Mutant of clear_all_state: the file is deleted, the set in memory is kept.
ClearOnlyFile(tickets, f) == [tickets |-> tickets, file |-> FileAbsent]

clear_all_state(tickets, f) == [tickets |-> {}, file |-> FileAbsent]

----------------------------------------------------------------------------
(* format_ticket_notes *)

\* description[:500]
DescriptionLimit == 500

\* Lengths of the descriptions drawn: around nothing, around the limit, far over.
BodyLengths ==
  {0, 1, 2, DescriptionLimit - 1, DescriptionLimit, DescriptionLimit + 1,
   DescriptionLimit + 2, DescriptionLimit + 100}

\* A description of n characters (character codes), no two neighbours alike.
Body(n) == [j \in 1..n |-> 48 + (j % 10)]

\* "..."
Ellipsis == <<46, 46, 46>>

\* What the f-string makes of None: "None".
NoneText == <<78, 111, 110, 101>>

\* issue.fields.description: no such attribute, None, or a string.
Descriptions ==
  {[attr |-> FALSE, none |-> TRUE, body |-> <<>>],
   [attr |-> TRUE, none |-> TRUE, body |-> <<>>]}
    \cup {[attr |-> TRUE, none |-> FALSE, body |-> Body(n)] : n \in BodyLengths}

\* issue.fields.reporter: a user, None, or no such attribute.
NoteReporterKinds == {"named", "none", "absent"}

\* The issues format_ticket_notes is given.
NoteIssues == [key : Ids, reporter : NoteReporterKinds, description : Descriptions]

\* One element of notes_parts; the description part starts with "\n", so the
\* join puts an empty line before its heading.
Part(tag, blank, key, body) == [tag |-> tag, blank |-> blank, key |-> key, body |-> body]

\* format_ticket_notes raises AttributeError: the reporter attribute is there
\* and is None, so None.displayName is read.
FormatRaises(issue) == issue.reporter = "none"

\* The text after "**Description**\n".
DescriptionText(description) ==
  IF description.none THEN NoneText
  ELSE IF description.body # <<>> /\ Len(description.body) > DescriptionLimit
       THEN SubSeq(description.body, 1, DescriptionLimit) \o Ellipsis
       ELSE description.body

\* notes_parts when the function returns, or the exception.
format_ticket_notes(issue) ==
  IF FormatRaises(issue) THEN [raised |-> TRUE, parts |-> <<>>]
  ELSE [raised |-> FALSE,
        parts |->
          <<Part("Ticket", FALSE, issue.key, <<>>), Part("URL", FALSE, issue.key, <<>>)>>
          \o (IF issue.reporter # "absent"
              THEN <<Part("Reporter", FALSE, issue.key, <<>>)>> ELSE <<>>)
          \o (IF issue.description.attr
              THEN <<Part("Description", TRUE, issue.key,
                          DescriptionText(issue.description))>>
              ELSE <<>>)]

NoNote == [called |-> FALSE, issue |-> [key |-> "A"], raised |-> FALSE, parts |-> <<>>]

----------------------------------------------------------------------------
(* sync_tickets *)

\* Mutant of KeepsIssue: the ledger is not consulted.
KeepsIssueIgnoringLedger(tickets, issue, force_resync, update_existing) == TRUE

\* The test that keeps an issue in tickets_to_sync.
KeepsIssue(tickets, issue, force_resync, update_existing) ==
  force_resync \/ update_existing \/ ~is_ticket_synced(tickets, issue.key)

TicketsToSync(tickets, issues, force_resync, update_existing) ==
  SelectSeq(issues, LAMBDA t : KeepsIssue(tickets, t, force_resync, update_existing))

\* Mutant of ActionLabel: the label follows the flag alone.
LabelByFlagOnly(tickets, ticket_key, update_existing) ==
  IF update_existing THEN "Updated" ELSE "Synced"

\* action = "Updated" if (update_existing and is_ticket_synced(key)) else "Synced"
ActionLabel(tickets, ticket_key, update_existing) ==
  IF update_existing /\ is_ticket_synced(tickets, ticket_key) THEN "Updated" ELSE "Synced"

\* add_todo: True, False (CalledProcessError), or another exception.
SinkOutcomes == {"true", "false", "raise"}

\* jira.search_issues returns the issues found, or raises.
SearchOutcomes == {"ok", "raise"}

\* Mutant of get_assigned_tickets: what was found comes back although the search raised.
SearchErrorIgnored(found, search) == found

\* get_assigned_tickets and get_tickets_by_jql: the result of the search, or []
\* when it raised.
get_assigned_tickets(found, search) == IF search = "raise" THEN <<>> ELSE found

NoRun ==
  [search |-> "ok", issues |-> <<>>, force_resync |-> FALSE, update_existing |-> FALSE,
   tickets_to_sync |-> <<>>, skipped_count |-> 0, synced_count |-> 0,
   i |-> 0, log |-> <<>>, before |-> {}, cleared |-> {}]

\* n: calls started; issues, force_resync, ok: the search result and flag of the
\* first call and the keys its Sink calls succeeded for.
NoTwice == [n |-> 0, issues |-> <<>>, force_resync |-> FALSE, ok |-> {}]

\* Outcome of the write of the last mark_ticket_synced in the log ("none": no mark).
LastWrite(log) ==
  LET marks == {j \in DOMAIN log : log[j].res = "true"}
  IN IF marks = {} THEN "none"
     ELSE log[CHOOSE j \in marks : \A k \in marks : k <= j].write

\* Which return of sync_tickets is taken: "No tickets found", "No new tickets
\* to sync.", or the end of the function after the loop.
ReturnPoint(issues, keep) ==
  CASE issues = <<>> -> "no_tickets"
    [] issues # <<>> /\ keep = <<>> -> "nothing_new"
    [] OTHER -> "completed"

\* What a sync_tickets call reports when it returns.
SyncOutput(returned, fetched, skipped, to_sync, synced, last_write) ==
  [op |-> "sync", returned |-> returned, fetched |-> fetched, skipped |-> skipped,
   to_sync |-> to_sync, synced |-> synced, last_write |-> last_write]

\* Where the loop goes after a ticket: the try/except is inside the loop body,
\* so whatever happened to ticket i, ticket i + 1 is next.
NextIndex(i, n, res) == i + 1

\* The call up to the loop: the search, the filter and the two early returns
\* (taken at Finish, with tickets_to_sync empty).
StartSync(found, search, force_resync, update_existing) ==
  /\ pc = "idle"
  /\ LET issues == get_assigned_tickets(found, search)
         keep == TicketsToSync(synced_tickets, issues, force_resync, update_existing)
     IN run' = [search |-> search, issues |-> issues, force_resync |-> force_resync,
                update_existing |-> update_existing,
                tickets_to_sync |-> keep, skipped_count |-> Len(issues) - Len(keep),
                synced_count |-> 0, i |-> 1, log |-> <<>>,
                before |-> synced_tickets,
                cleared |-> IF out.op = "reset" THEN out.had ELSE {}]
  /\ pc' = "sync"
  /\ out' = [op |-> "running"]
  /\ UNCHANGED <<state_file, synced_tickets, sunk, durable>>

\* One pass of the loop body for tickets_to_sync[i].
SyncStep(sink, w) ==
  /\ pc = "sync"
  /\ run.i <= Len(run.tickets_to_sync)
  /\ LET issue == run.tickets_to_sync[run.i]
         label == ActionLabel(synced_tickets, issue.key, run.update_existing)
         res == IF FormatRaises(issue) THEN "format_error" ELSE sink
         marked == mark_ticket_synced(synced_tickets, state_file, issue.key, w)
     IN /\ FormatRaises(issue) => sink = "raise"
        /\ res # "true" => w = "ok"
        /\ IF res = "true"
           THEN /\ synced_tickets' = marked.tickets
                /\ state_file' = marked.file
                /\ sunk' = sunk \cup {issue.key}
                /\ durable' = IF w = "ok" THEN durable \cup {issue.key} ELSE durable
           ELSE UNCHANGED <<synced_tickets, state_file, sunk, durable>>
        /\ run' = [run EXCEPT
                     !.i = NextIndex(@, Len(run.tickets_to_sync), res),
                     !.synced_count = IF res = "true" THEN @ + 1 ELSE @,
                     !.log = Append(@, [key |-> issue.key, label |-> label, res |-> res,
                                        write |-> IF res = "true" THEN w ELSE "none"])]
  /\ UNCHANGED <<pc, out>>

\* The return of sync_tickets: one of the early returns, or the summary lines
\* after the loop.
FinishSync ==
  /\ pc = "sync"
  /\ run.i > Len(run.tickets_to_sync)
  /\ out' = SyncOutput(ReturnPoint(run.issues, run.tickets_to_sync), Len(run.issues),
                       run.skipped_count, Len(run.tickets_to_sync),
                       run.synced_count, LastWrite(run.log))
  /\ pc' = "idle"
  /\ run' = NoRun
  /\ UNCHANGED <<state_file, synced_tickets, sunk, durable>>

----------------------------------------------------------------------------
(* The other commands *)

\* JIRA(server=...) returns a client, or raises and JiraManager.__init__ raises on.
ConnectOutcomes == {"ok", "raise"}

\* Mutant of StartResult: a failed connection is taken for a good one.
StartResultIgnoringConnect(connect) == "idle"

\* Where Thira.__init__ leaves the process: with a Thira object, or with the
\* exception of JiraManager.__init__ and no object.
StartResult(connect) == IF connect = "ok" THEN "idle" ELSE "down"

\* A new process: Thira.__init__ builds StateManager, which loads the file, and
\* then JiraManager, which connects.
Restart(created, connect) ==
  /\ pc \in {"idle", "down"}
  /\ Exists(state_file) => created
  /\ IF LoadRaises(state_file)
     THEN /\ connect = "ok"
          /\ synced_tickets' = {}
          /\ pc' = "down"
          /\ out' = [op |-> "load_raised", found |-> state_file.kind]
          /\ UNCHANGED state_file
     ELSE /\ synced_tickets' = _load_state(state_file)
          /\ state_file' = LoadedFile(state_file, created)
          /\ pc' = StartResult(connect)
          /\ out' = IF connect = "ok"
                    THEN [op |-> "restart", discarded |-> synced_tickets,
                          last_write |-> IF out.op = "sync" THEN out.last_write ELSE "none",
                          found |-> state_file.kind]
                    ELSE [op |-> "connect_failed", found |-> state_file.kind]
  /\ UNCHANGED <<run, sunk, durable>>

GetSyncStatus ==
  /\ pc = "idle"
  /\ LET stats == get_sync_stats(state_file)
     IN out' = [op |-> "status", total_synced |-> StatsTotal(stats),
                last_sync |-> StatsLastSync(stats)]
  /\ UNCHANGED <<state_file, synced_tickets, pc, run, sunk, durable>>

ResetSyncState ==
  /\ pc = "idle"
  /\ LET cleared == clear_all_state(synced_tickets, state_file)
     IN /\ synced_tickets' = cleared.tickets
        /\ state_file' = cleared.file
  /\ out' = [op |-> "reset", had |-> synced_tickets]
  /\ sunk' = {}
  /\ durable' = {}
  /\ UNCHANGED <<pc, run>>

RemoveTicketFromSync(ticket_key, w) ==
  /\ pc = "idle"
  /\ LET removed == remove_ticket(synced_tickets, state_file, ticket_key, w)
     IN /\ synced_tickets' = removed.tickets
        /\ state_file' = removed.file
  /\ out' = [op |-> "remove", key |-> ticket_key, write |-> w,
             had |-> is_ticket_synced(synced_tickets, ticket_key)]
  /\ durable' = durable \ {ticket_key}
  /\ UNCHANGED <<pc, run, sunk>>

\* No second process.  overlapped: history, the two processes were up together.
NoPeer == [up |-> FALSE, synced_tickets |-> {}, overlapped |-> FALSE]

----------------------------------------------------------------------------
(* One process at a time, from a first start on a machine with no state file *)

Init ==
  /\ state_file \in {FileAbsent, FileEmpty}
  /\ synced_tickets = _load_state(state_file)
  /\ pc = "idle"
  /\ run = NoRun
  /\ out = [op |-> "start"]
  /\ sunk = {}
  /\ durable = {}
  /\ twice = NoTwice
  /\ note = NoNote
  /\ peer = NoPeer

Sync ==
  /\ \E found \in FetchResults, search \in SearchOutcomes,
        force_resync \in BOOLEAN, update_existing \in BOOLEAN :
       StartSync(found, search, force_resync, update_existing)
  /\ UNCHANGED <<twice, note, peer>>

Step ==
  /\ \E sink \in SinkOutcomes, w \in WriteOutcomes : SyncStep(sink, w)
  /\ UNCHANGED <<twice, note, peer>>

Finish == FinishSync /\ UNCHANGED <<twice, note, peer>>

Start ==
  /\ \E created \in BOOLEAN, connect \in ConnectOutcomes : Restart(created, connect)
  /\ UNCHANGED <<twice, note, peer>>

Status == GetSyncStatus /\ UNCHANGED <<twice, note, peer>>

Reset == ResetSyncState /\ UNCHANGED <<twice, note, peer>>

Remove ==
  /\ \E ticket_key \in Ids, w \in WriteOutcomes : RemoveTicketFromSync(ticket_key, w)
  /\ UNCHANGED <<twice, note, peer>>

Next == Sync \/ Step \/ Finish \/ Start \/ Status \/ Reset \/ Remove

Spec == Init /\ [][Next]_vars

----------------------------------------------------------------------------
(* Two sync_tickets calls in a row on the same search result, nothing between *)

\* A process that has just started on a state file the program left behind.
InitTwice ==
  /\ state_file \in {FileAbsent, FileEmpty} \cup {FileJson(S) : S \in SUBSET Ids}
  /\ synced_tickets = _load_state(state_file)
  /\ pc = "idle"
  /\ run = NoRun
  /\ out = [op |-> "start"]
  /\ sunk = synced_tickets
  /\ durable = synced_tickets
  /\ twice = NoTwice
  /\ note = NoNote
  /\ peer = NoPeer

SyncFirst ==
  /\ twice.n = 0
  /\ \E found \in FetchResults, search \in SearchOutcomes,
        force_resync \in BOOLEAN, update_existing \in BOOLEAN :
       /\ StartSync(found, search, force_resync, update_existing)
       /\ twice' = [NoTwice EXCEPT !.n = 1,
                                   !.issues = get_assigned_tickets(found, search),
                                   !.force_resync = force_resync]
  /\ UNCHANGED <<note, peer>>

SyncSecond ==
  /\ twice.n = 1
  /\ \E force_resync \in BOOLEAN, update_existing \in BOOLEAN :
       StartSync(twice.issues, "ok", force_resync, update_existing)
  /\ twice' = [twice EXCEPT !.n = 2]
  /\ UNCHANGED <<note, peer>>

StepTwice ==
  /\ \E sink \in SinkOutcomes, w \in WriteOutcomes : SyncStep(sink, w)
  /\ twice' = IF twice.n = 1 /\ run'.log[Len(run'.log)].res = "true"
              THEN [twice EXCEPT !.ok = @ \cup {run'.log[Len(run'.log)].key}]
              ELSE twice
  /\ UNCHANGED <<note, peer>>

NextTwice == SyncFirst \/ SyncSecond \/ StepTwice \/ Finish

SpecTwice == InitTwice /\ [][NextTwice]_vars

----------------------------------------------------------------------------
(* A process start on whatever the state file holds by then *)

\* What a start may find at STATE_FILE: nothing, what the program left there
\* (an empty, a truncated or a complete file), or a file from elsewhere.
StoredFiles ==
  {FileAbsent, FileEmpty, FilePartial, FileForeign} \cup {FileJson(S) : S \in SUBSET Ids}

\* No process yet; the keys a complete file lists were synced by earlier ones.
InitStored ==
  /\ state_file \in StoredFiles
  /\ synced_tickets = {}
  /\ pc = "down"
  /\ run = NoRun
  /\ out = [op |-> "start"]
  /\ sunk = _load_state(state_file)
  /\ durable = _load_state(state_file)
  /\ twice = NoTwice
  /\ note = NoNote
  /\ peer = NoPeer

SpecStored == InitStored /\ [][Next]_vars

----------------------------------------------------------------------------
(* Two processes on one state file, each with its own StateManager; of a
   sync_tickets call only the mark_ticket_synced calls are kept, and a write
   is one step *)

InitConcurrent ==
  /\ state_file \in {FileAbsent, FileEmpty}
  /\ synced_tickets = {}
  /\ pc = "down"
  /\ run = NoRun
  /\ out = [op |-> "start"]
  /\ sunk = {}
  /\ durable = {}
  /\ twice = NoTwice
  /\ note = NoNote
  /\ peer = NoPeer

\* StateManager.__init__ in the first process.
OwnStart(created) ==
  /\ pc = "down"
  /\ Exists(state_file) => created
  /\ synced_tickets' = _load_state(state_file)
  /\ state_file' = LoadedFile(state_file, created)
  /\ pc' = "idle"
  /\ peer' = [peer EXCEPT !.overlapped = @ \/ peer.up]
  /\ UNCHANGED <<run, out, sunk, durable, twice, note>>

\* self.state.mark_ticket_synced(issue.key) in the first process.
OwnMark(ticket_key, w) ==
  /\ pc = "idle"
  /\ LET marked == mark_ticket_synced(synced_tickets, state_file, ticket_key, w)
     IN /\ synced_tickets' = marked.tickets
        /\ state_file' = marked.file
  /\ durable' = IF w = "ok" THEN durable \cup {ticket_key} ELSE durable
  /\ UNCHANGED <<pc, run, out, sunk, twice, note, peer>>

\* The first process ends.
OwnExit ==
  /\ pc = "idle"
  /\ pc' = "down"
  /\ synced_tickets' = {}
  /\ UNCHANGED <<state_file, run, out, sunk, durable, twice, note, peer>>

\* StateManager.__init__ in the second process.
PeerStart(created) ==
  /\ ~peer.up
  /\ Exists(state_file) => created
  /\ peer' = [up |-> TRUE, synced_tickets |-> _load_state(state_file),
              overlapped |-> peer.overlapped \/ pc = "idle"]
  /\ state_file' = LoadedFile(state_file, created)
  /\ UNCHANGED <<synced_tickets, pc, run, out, sunk, durable, twice, note>>

\* self.state.mark_ticket_synced(issue.key) in the second process.
PeerMark(ticket_key, w) ==
  /\ peer.up
  /\ LET marked == mark_ticket_synced(peer.synced_tickets, state_file, ticket_key, w)
     IN /\ peer' = [peer EXCEPT !.synced_tickets = marked.tickets]
        /\ state_file' = marked.file
  /\ durable' = IF w = "ok" THEN durable \cup {ticket_key} ELSE durable
  /\ UNCHANGED <<synced_tickets, pc, run, out, sunk, twice, note>>

\* The second process ends.
PeerExit ==
  /\ peer.up
  /\ peer' = [peer EXCEPT !.up = FALSE, !.synced_tickets = {}]
  /\ UNCHANGED <<state_file, synced_tickets, pc, run, out, sunk, durable,
                 twice, note>>

StartOwn == \E created \in BOOLEAN : OwnStart(created)

MarkOwn == \E ticket_key \in Ids, w \in WriteOutcomes : OwnMark(ticket_key, w)

StartPeer == \E created \in BOOLEAN : PeerStart(created)

MarkPeer == \E ticket_key \in Ids, w \in WriteOutcomes : PeerMark(ticket_key, w)

NextConcurrent == StartOwn \/ MarkOwn \/ OwnExit \/ StartPeer \/ MarkPeer \/ PeerExit

SpecConcurrent == InitConcurrent /\ [][NextConcurrent]_vars

----------------------------------------------------------------------------
(* format_ticket_notes on one issue *)

InitNotes ==
  /\ state_file = FileAbsent
  /\ synced_tickets = {}
  /\ pc = "idle"
  /\ run = NoRun
  /\ out = [op |-> "start"]
  /\ sunk = {}
  /\ durable = {}
  /\ twice = NoTwice
  /\ note \in {[NoNote EXCEPT !.issue = t] : t \in NoteIssues}
  /\ peer = NoPeer

\* notes = self.jira.format_ticket_notes(issue)
FormatNotes ==
  /\ ~note.called
  /\ LET made == format_ticket_notes(note.issue)
     IN note' = [note EXCEPT !.called = TRUE, !.raised = made.raised, !.parts = made.parts]
  /\ UNCHANGED <<state_file, synced_tickets, pc, run, out, sunk, durable,
                 twice, peer>>

NextNotes == FormatNotes

SpecNotes == InitNotes /\ [][NextNotes]_vars

----------------------------------------------------------------------------
(* Properties *)

\* The loop of sync_tickets has gone through all of tickets_to_sync.
LoopDone == pc = "sync" /\ run.i > Len(run.tickets_to_sync)

\* The log entries that stand for a call of add_todo.
SinkCalls(log) == {j \in DOMAIN log : log[j].res # "format_error"}

\* How many of the fetched issues carry a key of the set.
CountKeys(issues, keys) == Cardinality({j \in DOMAIN issues : issues[j].key \in keys})

----------------------------------------------------------------------------

\* Keys of the log entries whose Sink call returned True.
OkKeys(log) == {log[j].key : j \in {k \in DOMAIN log : log[k].res = "true"}}

\* The log entries whose Sink call returned False or raised.
FailedCalls(log) == {j \in DOMAIN log : log[j].res \in {"false", "raise"}}

\* The ledger as ticket j of tickets_to_sync found it.
LedgerAt(j) == run.before \cup OkKeys(SubSeq(run.log, 1, j - 1))

\* C2 as claimed: a ticket whose Sink call returns failure or raises is not
\* marked, leaves the ledger as it was, and every later ticket of
\* tickets_to_sync still gets its own Sink call; the loop reaches the end.
C2_FailureIsolated ==
  LoopDone =>
    /\ Len(run.log) = Len(run.tickets_to_sync)
    /\ synced_tickets = run.before \cup OkKeys(run.log)
    /\ \A j \in FailedCalls(run.log) :
         /\ run.log[j].write = "none"
         /\ \A k \in DOMAIN run.tickets_to_sync : k > j => k \in SinkCalls(run.log)

\* C3 as claimed: after a call the ledger is the ledger before plus the keys
\* whose Sink call succeeded, synced counts the successful Sink calls, the
\* tickets not synced are the failed Sink calls, and
\* skipped + synced + failed = fetched.
C3_RunAccounting ==
  LoopDone =>
    LET failed == Cardinality(FailedCalls(run.log))
    IN /\ synced_tickets = run.before \cup OkKeys(run.log)
       /\ run.synced_count = Cardinality({j \in DOMAIN run.log : run.log[j].res = "true"})
       /\ Len(run.tickets_to_sync) - run.synced_count = failed
       /\ run.skipped_count + run.synced_count + failed = Len(run.issues)

\* The decision table of the specification.
TableDecision(force_resync, update_existing, synced) ==
  CASE force_resync -> "Create"
    [] ~force_resync /\ update_existing -> IF synced THEN "Update" ELSE "Create"
    [] OTHER -> IF synced THEN "Skip" ELSE "Create"

\* The decision a log entry shows: the label it computed for reporting.
Reported(entry) == IF entry.label = "Updated" THEN "Update" ELSE "Create"

\* The tickets the table does not skip, the ledger being the one the call found.
TableKeeps ==
  SelectSeq(run.issues,
            LAMBDA t : TableDecision(run.force_resync, run.update_existing,
                                     t.key \in run.before) # "Skip")

----------------------------------------------------------------------------

\* C5 as claimed: a key is in the ledger if and only if a Sink call for it has
\* returned success since the ledger was last cleared.
C5_LedgerIffSinkSuccess == synced_tickets = sunk

\* C5 amended: a key is in the ledger only if a Sink call for it has returned
\* success since the ledger was last cleared (remove_ticket, or a restart after
\* a failed write, takes a key out again although its Sink call succeeded).
C5_LedgerOnlyIfSinkSuccess == synced_tickets \subseteq sunk

\* A key whose Sink call succeeded has just been removed; another is still in.
C5_Witness ==
  /\ out.op = "remove"
  /\ out.key \in sunk
  /\ out.key \notin synced_tickets
  /\ synced_tickets # {}

\* C6 as claimed: a key marked with a successful write stays in the ledger, also
\* across restarts, until remove_ticket(key) or clear_all_state.
C6_MarkedStaysSynced == \A k \in durable : is_ticket_synced(synced_tickets, k)

C8_ResetThenResync ==
  /\ out.op = "reset" => StatsTotal(get_sync_stats(state_file)) = 0
  /\ (LoopDone /\ ~run.force_resync /\ ~run.update_existing) =>
       \A j \in DOMAIN run.issues :
         run.issues[j].key \in run.cleared =>
           \E k \in SinkCalls(run.log) : run.log[k].key = run.issues[j].key

\* C9: a failed write in mark_ticket_synced or remove_ticket does not undo the
\* change in memory and does not stop the command, and the next decisions are
\* taken on the set in memory, not on the file.
C9_MemoryKeptOnWriteFailure ==
  /\ pc = "sync" =>
       /\ \A j \in DOMAIN run.log :
            run.log[j].res = "true" => is_ticket_synced(synced_tickets, run.log[j].key)
       /\ run.synced_count = Cardinality({j \in DOMAIN run.log : run.log[j].res = "true"})
       /\ (~run.force_resync /\ ~run.update_existing) =>
            run.tickets_to_sync = SelectSeq(run.issues, LAMBDA t : t.key \notin run.before)
  /\ out.op = "remove" => ~is_ticket_synced(synced_tickets, out.key)

\* A call skips a key the file does not hold (its write had failed), and marks
\* another whose write fails too.
C9_Witness ==
  /\ pc = "sync"
  /\ ~run.force_resync /\ ~run.update_existing
  /\ \E j \in DOMAIN run.issues :
       /\ run.issues[j].key \in run.before
       /\ run.issues[j].key \notin _load_state(state_file)
  /\ \E j \in DOMAIN run.log :
       /\ run.log[j].res = "true"
       /\ run.log[j].write # "ok"
       /\ run.log[j].key \in synced_tickets
       /\ run.log[j].key \notin _load_state(state_file)

\* What get_sync_stats returns, and what the status shows, is the content of
\* the state file as it is now (what a start would load from it).
StatsAreFileContent ==
  LET stats == get_sync_stats(state_file)
  IN /\ StatsTotal(stats) = Cardinality(_load_state(state_file))
     /\ SetOfList(stats.synced_tickets) = _load_state(state_file)
     /\ out.op = "status" =>
          /\ out.total_synced = Cardinality(_load_state(state_file))
          /\ out.last_sync = IF Parses(state_file) THEN state_file.last_sync ELSE "Never"

\* A step in which a write to the state file succeeded or the file was deleted:
\* a mark_ticket_synced in the loop, a remove_ticket, a clear_all_state.
PersistStep ==
  \/ /\ pc = "sync" /\ pc' = "sync"
     /\ Len(run'.log) = Len(run.log) + 1
     /\ run'.log[Len(run'.log)].write = "ok"
  \/ /\ pc = "idle" /\ pc' = "idle"
     /\ out'.op = "remove"
     /\ out'.write = "ok"
  \/ /\ pc = "idle" /\ pc' = "idle"
     /\ out'.op = "reset"

\* C10 as claimed: get_sync_stats reports the last successfully persisted state,
\* not the set in memory: the count and the list it returns change only in a
\* step that persists, and a step whose write fails leaves them as they were.
C10_StatsAreLastPersisted ==
  [][(\/ StatsTotal(get_sync_stats(state_file')) # StatsTotal(get_sync_stats(state_file))
      \/ get_sync_stats(state_file').synced_tickets # get_sync_stats(state_file).synced_tickets)
       => PersistStep]_vars

\* The last command was a process start (whatever came of it).
Started == out.op \in {"restart", "connect_failed", "load_raised"}

\* C11 as claimed: a start that finds a state file with malformed content (an
\* empty or truncated file, or a document of another shape) raises nothing from
\* the load, has an empty ledger, and get_sync_stats then shows total_synced 0.
C11_CorruptStorageIsEmpty ==
  (Started /\ out.found \in {"empty", "partial", "foreign"})
    => /\ out.op # "load_raised"
       /\ \A k \in Ids : ~is_ticket_synced(synced_tickets, k)
       /\ ~StatsRaises(state_file)
       /\ StatsTotal(get_sync_stats(state_file)) = 0

\* C12: a start that finds no state file has an empty ledger and raises nothing
\* from the load, whether or not it could create the file; a later start that
\* finds the file so created, untouched, has an empty ledger again and raises
\* nothing.
C12_FirstRunLoad ==
  /\ (Started /\ out.found = "absent")
       => /\ out.op # "load_raised"
          /\ synced_tickets = {}
          /\ state_file \in {FileAbsent, FileEmpty}
  /\ \A created \in BOOLEAN :
       LET location == LoadedFile(FileAbsent, created)
       IN ~LoadRaises(location) /\ _load_state(location) = {}
  /\ (Started /\ out.found = "empty")
       => /\ out.op # "load_raised"
          /\ synced_tickets = {}
          /\ state_file = FileEmpty

\* A start has found the empty file an earlier start created, and loaded it.
C12_Witness ==
  /\ out.op = "restart"
  /\ out.found = "empty"
  /\ state_file = FileEmpty
  /\ synced_tickets = {}

C14_NoTicketsNoEffect ==
  [][/\ (pc' = "sync" /\ run'.search = "raise") => run'.issues = <<>>
     /\ ((pc' = "sync" /\ run'.issues = <<>>) \/ (pc = "sync" /\ run.issues = <<>>))
          => /\ state_file' = state_file
             /\ synced_tickets' = synced_tickets
             /\ sunk' = sunk
             /\ pc' = "sync" => (run'.tickets_to_sync = <<>> /\ run'.log = <<>>)
             /\ pc = "sync" =>
                   /\ pc' = "idle"
                   /\ out' = SyncOutput("no_tickets", 0, 0, 0, 0, "none")]_vars

\* A call whose search raised stands at its return "No tickets found", over a
\* ledger that holds keys.
C14_Witness ==
  /\ LoopDone
  /\ run.search = "raise"
  /\ ReturnPoint(run.issues, run.tickets_to_sync) = "no_tickets"
  /\ synced_tickets # {}
  /\ _load_state(state_file) = synced_tickets

\* How many Sink calls the log holds for a key.
SinkCallsFor(log, key) == Cardinality({j \in SinkCalls(log) : log[j].key = key})

\* C15 as claimed: with force_resync or update_existing a call makes exactly one
\* Sink call for every fetched ticket, in the ledger or not; with both flags
\* false it makes exactly one for every fetched ticket whose key is not in the
\* ledger and none for a key that is.
C15_WhoReachesTheSink ==
  LoopDone =>
    \A j \in DOMAIN run.issues :
      LET key == run.issues[j].key
      IN SinkCallsFor(run.log, key) =
           IF run.force_resync \/ run.update_existing \/ key \notin run.before
           THEN 1 ELSE 0

\* The keys of a sequence of issues or of log entries, in order.
KeysOf(seq) == [j \in DOMAIN seq |-> seq[j].key]

\* C16 as claimed: the Sink calls of a call, in order, are the fetched tickets
\* that were not skipped, in the order fetched; the mark_ticket_synced calls
\* are those of them whose Sink call succeeded, in the same order.
C16_FetchOrder ==
  LoopDone =>
    LET kept == SelectSeq(run.issues,
                  LAMBDA t : KeepsIssue(run.before, t, run.force_resync, run.update_existing))
        calls == SelectSeq(run.log, LAMBDA e : e.res # "format_error")
    IN /\ KeysOf(calls) = KeysOf(kept)
       /\ KeysOf(SelectSeq(run.log, LAMBDA e : e.res = "true"))
            = KeysOf(SelectSeq(calls, LAMBDA e : e.res = "true"))

\* C17: remove_ticket raises nothing and changes nothing in memory when the key
\* is not in the set, gives the same set applied twice as applied once, touches
\* no other key, leaves the key not synced, and rewrites the whole file on
\* every call, the key present or not.
C17_RemoveIdempotent ==
  /\ pc = "idle" =>
       \A k \in Ids, w1 \in WriteOutcomes, w2 \in WriteOutcomes :
         LET once == remove_ticket(synced_tickets, state_file, k, w1)
             again == remove_ticket(once.tickets, once.file, k, w2)
         IN /\ ~is_ticket_synced(synced_tickets, k) => once.tickets = synced_tickets
            /\ again.tickets = once.tickets
            /\ \A other \in Ids \ {k} :
                 is_ticket_synced(once.tickets, other) = is_ticket_synced(synced_tickets, other)
            /\ ~is_ticket_synced(once.tickets, k)
            /\ w1 = "ok" => once.file = FileJson(once.tickets)
            /\ w2 = "ok" => again.file = FileJson(once.tickets)
  /\ out.op = "remove" =>
       /\ pc = "idle"
       /\ ~is_ticket_synced(synced_tickets, out.key)
       /\ out.write = "ok" => state_file = FileJson(synced_tickets)

\* A key that was not in the set has been removed: the set still holds the
\* other key, and the file, which an earlier failed write had left behind the
\* set, has been rewritten in full.
C17_Witness ==
  /\ out.op = "remove"
  /\ ~out.had
  /\ out.write = "ok"
  /\ synced_tickets # {}
  /\ durable # synced_tickets
  /\ state_file = FileJson(synced_tickets)

\* The state is the one right after a mark_ticket_synced or a remove_ticket
\* whose write succeeded.
JustWritten ==
  \/ /\ pc = "sync"
     /\ run.log # <<>>
     /\ run.log[Len(run.log)].res = "true"
     /\ run.log[Len(run.log)].write = "ok"
  \/ /\ out.op = "remove"
     /\ out.write = "ok"

\* C20: right after a mark_ticket_synced or remove_ticket whose write succeeded,
\* the keys in the state file are the keys in memory, whatever became of the
\* earlier writes of the process.
C20_SnapshotHeals ==
  JustWritten =>
    /\ Parses(state_file)
    /\ SetOfList(state_file.synced_tickets) = synced_tickets
    /\ _load_state(state_file) = synced_tickets

\* The first mark of a call failed to write, the second has just written: the
\* file holds both keys.
C20_Witness ==
  /\ pc = "sync"
  /\ Len(run.log) = 2
  /\ run.log[1].res = "true" /\ run.log[1].write # "ok"
  /\ run.log[2].res = "true" /\ run.log[2].write = "ok"
  /\ run.log[1].key \in _load_state(state_file)
  /\ run.log[1].key \notin durable

\* C19 as claimed: format_ticket_notes never fails, and yields in this order the
\* Ticket part, the URL part, a Reporter part only if the issue has a reporter,
\* and, behind an empty line, a Description part only if the issue has a body:
\* the body unchanged up to DescriptionLimit characters, its first
\* DescriptionLimit characters and an ellipsis beyond.
C19_NotesTemplate ==
  note.called =>
    LET issue == note.issue
        body == issue.description.body
        has_reporter == issue.reporter = "named"
        has_body == issue.description.attr /\ ~issue.description.none /\ body # <<>>
        tags == [j \in DOMAIN note.parts |-> note.parts[j].tag]
        last == note.parts[Len(note.parts)]
    IN /\ ~note.raised
       /\ tags = <<"Ticket", "URL">>
                  \o (IF has_reporter THEN <<"Reporter">> ELSE <<>>)
                  \o (IF has_body THEN <<"Description">> ELSE <<>>)
       /\ has_body =>
            /\ last.blank
            /\ last.body = IF Len(body) > DescriptionLimit
                           THEN SubSeq(body, 1, DescriptionLimit) \o Ellipsis
                           ELSE body

\* Both processes have ended, and a key one of them marked with a successful
\* write is not in the state file.
LostUpdate ==
  /\ pc = "down"
  /\ ~peer.up
  /\ \E k \in durable : k \notin _load_state(state_file)

\* C18 as claimed, second half: with at most one process up at a time, no key
\* marked with a successful write is missing from the state file once the
\* processes have ended.  (The first half, that two processes up together can
\* end so, is the reachability of LostUpdate with peer.overlapped.)
C18_NoLossWithoutOverlap == LostUpdate => peer.overlapped

====
